---- MODULE Spec2Model ----
(***************************************************************************)
(* Model of the iterative DOM pruner of dom_pruner.py: the classification  *)
(* should_prune, the recursive rewrite prune_object and the fixed-point    *)
(* driver run_passes, on an engine that main builds from the built-in rule *)
(* table or from a loaded one.                                             *)
(*                                                                         *)
(* A JSON value is a tagged record.  A Python str is a sequence of         *)
(* one-character strings, so that strip, split, lower, the regular         *)
(* expressions and json.dumps are computed character by character.  A dict *)
(* is the sequence of its <<key, value>> pairs in insertion order.         *)
(*                                                                         *)
(* A rule table is a Python dict from category names to list objects.  No  *)
(* statement of the source changes a list, so a list object is written as  *)
(* its name and a table is the function from its keys to those names;      *)
(* ListObject gives the contents of the lists that the engine reads.       *)
(***************************************************************************)
EXTENDS Integers, Sequences, FiniteSets, TLC

VARIABLES
    PRUNE_PATTERNS, \* the module-level dict of lines 8-84, as it is now
    patterns,       \* main: the dict passed to DOMPruner(patterns), as it is now
    args_patterns,  \* main: TRUE iff --patterns was given (patterns is a loaded
                    \* dict), FALSE iff patterns is the PRUNE_PATTERNS object
    pruner,         \* main: the engine (self.patterns, self.compiled_patterns)
    data,        \* run_passes: the tree handed in
    max_passes,  \* run_passes: the pass ceiling handed in
    previous,    \* run_passes: snapshot taken before the last pass
    current,     \* run_passes: the tree being rewritten
    passes,      \* run_passes: the counter that is returned
    pc,          \* "main" (line 246), "loaded" (line 251), "idle" (engine built),
                 \* run_passes: "loop" (at the while test), "done" (returned)
    applied,     \* history: how many times prune_object ran on the whole tree
    converged,   \* history: TRUE iff the loop was left by the break of line 229
    call         \* one direct should_prune(value, key) call and its outcome

vars ==
    <<PRUNE_PATTERNS, patterns, args_patterns, pruner, data, max_passes,
      previous, current, passes, pc, applied, converged, call>>

-----------------------------------------------------------------------------
(* Bounds of the model.                                                    *)

\* Largest number of nodes (containers and scalars) of an input tree.
MaxNodes == 4
\* run_passes is called with max_passes in 0..MaxPasses.
MaxPasses == 4
\* Largest number of whitespace-separated tokens of a classified string.
MaxTokens == 2

-----------------------------------------------------------------------------
(* String literals of the source, as character sequences.                  *)

S_nodeName == <<"n", "o", "d", "e", "N", "a", "m", "e">>
S_height == <<"h", "e", "i", "g", "h", "t">>
S_width == <<"w", "i", "d", "t", "h">>
S_constructor == <<"c", "o", "n", "s", "t", "r", "u", "c", "t", "o", "r">>
S_fill == <<"f", "i", "l", "l">>
S_viewBox == <<"v", "i", "e", "w", "B", "o", "x">>
S_className == <<"c", "l", "a", "s", "s", "N", "a", "m", "e">>
S_style == <<"s", "t", "y", "l", "e">>
S_css == <<"c", "s", "s">>
S_tailwind == <<"t", "a", "i", "l", "w", "i", "n", "d">>
S_hash_text == <<"#", "t", "e", "x", "t">>
S_hash_comment == <<"#", "c", "o", "m", "m", "e", "n", "t">>
S_fulfilled == <<"f", "u", "l", "f", "i", "l", "l", "e", "d">>
S_object_Object == <<"[", "o", "b", "j", "e", "c", "t", " ", "O", "b", "j", "e", "c", "t", "]">>
S_UnserializableObject == <<"U", "n", "s", "e", "r", "i", "a", "l", "i", "z", "a", "b", "l", "e", "O", "b", "j", "e", "c", "t">>
S_newline == <<"\n">>
S_LINK == <<"L", "I", "N", "K">>
S_default == <<"d", "e", "f", "a", "u", "l", "t">>
S_null == <<"n", "u", "l", "l">>
S_undefined == <<"u", "n", "d", "e", "f", "i", "n", "e", "d">>
S_mx == <<"m", "x">>
S_my == <<"m", "y">>
S_px == <<"p", "x">>
S_py == <<"p", "y">>
S_m == <<"m">>
S_p == <<"p">>
S_gap == <<"g", "a", "p">>
S_flex == <<"f", "l", "e", "x">>
S_grid == <<"g", "r", "i", "d">>
S_block == <<"b", "l", "o", "c", "k">>
S_inline == <<"i", "n", "l", "i", "n", "e">>
S_hidden == <<"h", "i", "d", "d", "e", "n">>
S_mb == <<"m", "b">>
S_mt == <<"m", "t">>
S_ml == <<"m", "l">>
S_mr == <<"m", "r">>
S_space_x == <<"s", "p", "a", "c", "e", "-", "x">>
S_space_y == <<"s", "p", "a", "c", "e", "-", "y">>

\* The module-level tables of dom_pruner.py that the engine reads.
DOM_TEXT_VALUES ==
    { S_hash_text, S_hash_comment, S_fulfilled, S_object_Object,
      S_UnserializableObject, S_newline, S_LINK, S_default }

REMOVE_KEYS == { S_height, S_width, S_constructor, S_fill, S_viewBox }

\* CSS_PATTERNS['keys'], which __init__ stores as patterns['css_keys'].
CSS_KEYS == { S_className, S_style, S_css, S_tailwind }

\* The regular expressions of CSS_PATTERNS['values'].
RE_spacing == "^(mx|my|px|py|m|p|gap)-[0-9\\.]+$"
RE_flex == "^flex(-[a-z]+)*$"
RE_grid == "^grid(-[a-z]+)*$"
RE_display == "^(block|inline|hidden)$"
RE_margin == "^(mb|mt|ml|mr)-[0-9\\.]+$"
RE_space == "^space-(x|y)-[0-9\\.]+$"
RE_gap == "^gap-[0-9\\.]+$"

CSS_VALUES ==
    { RE_spacing, RE_flex, RE_grid, RE_display, RE_margin, RE_space, RE_gap }

\* The dict CSS_PATTERNS: its two list objects.
CSS_PATTERNS ==
    [ keys |-> "CSS_PATTERNS['keys']", values |-> "CSS_PATTERNS['values']" ]

\* The dict literal that PRUNE_PATTERNS is bound to when the module is loaded.
PRUNE_PATTERNS_0 ==
    [ react_keys |-> "PRUNE_PATTERNS['react_keys']",
      feature_flag_keys |-> "PRUNE_PATTERNS['feature_flag_keys']",
      technical_keys |-> "PRUNE_PATTERNS['technical_keys']",
      base64_looking_keys |-> "PRUNE_PATTERNS['base64_looking_keys']",
      style_classes |-> "PRUNE_PATTERNS['style_classes']",
      html_attributes |-> "PRUNE_PATTERNS['html_attributes']",
      technical_metadata |-> "PRUNE_PATTERNS['technical_metadata']",
      empty_technical |-> "PRUNE_PATTERNS['empty_technical']",
      technical_values |-> "PRUNE_PATTERNS['technical_values']",
      react_values |-> "PRUNE_PATTERNS['react_values']",
      base64_values |-> "PRUNE_PATTERNS['base64_values']" ]

\* A rule table read from a --patterns file: of the shape of PRUNE_PATTERNS,
\* with css_values and css_keys lists of its own.
RE_hi == "^hi$"
T_a == <<"a">>
T_hi == <<"h", "i">>

LoadedPatterns ==
    [ react_keys |-> "loaded['react_keys']",
      css_values |-> "loaded['css_values']",
      css_keys |-> "loaded['css_keys']" ]

\* The contents of the list objects that the engine reads.
ListObject(name) ==
    CASE name = CSS_PATTERNS.keys -> CSS_KEYS
      [] name = CSS_PATTERNS.values -> CSS_VALUES
      [] name = LoadedPatterns.css_keys -> { T_a }
      [] name = LoadedPatterns.css_values -> { RE_hi }

\* Variant of SetItem: d.setdefault(k, v), which keeps an entry d has.
SetDefault(d, k, v) ==
    [ c \in DOMAIN d \cup { k } |-> IF c \in DOMAIN d THEN d[c] ELSE v ]

\* d[k] = v on a dict.
SetItem(d, k, v) == [ c \in DOMAIN d \cup { k } |-> IF c = k THEN v ELSE d[c] ]

\* [re.compile(pattern) if isinstance(pattern, str) else pattern
\*  for pattern in patterns]: the list compiled from a list object.
Compiled(name) == [ compiled |-> name ]

\* Lines 136-141: the dict that compile_regex binds to self.compiled_patterns.
CompileRegex(ps) ==
    [ category \in DOMAIN ps \ { "css_keys" } |-> Compiled(ps[category]) ]

-----------------------------------------------------------------------------
(* Python values.                                                          *)

None == [t |-> "null"]
Bool(b) == [t |-> "bool", b |-> b]
PyInt(n) == [t |-> "int", n |-> n]
\* A non-finite float: f is "nan" or "inf" (json.load accepts NaN, Infinity).
PyFloat(f) == [t |-> "float", f |-> f]
Str(s) == [t |-> "str", s |-> s]
List(items) == [t |-> "list", items |-> items]
Dict(pairs) == [t |-> "dict", pairs |-> pairs]

Keys(d) == [i \in 1..Len(d.pairs) |-> d.pairs[i][1]]

-----------------------------------------------------------------------------
(* str.strip, str.split, str.lower and the `in` test on strings.           *)

Whitespace == { " ", "\t", "\n", "\r" }

RECURSIVE LStrip(_)
LStrip(s) ==
    IF s # <<>> /\ Head(s) \in Whitespace THEN LStrip(Tail(s)) ELSE s

RECURSIVE RStrip(_)
RStrip(s) ==
    IF s # <<>> /\ s[Len(s)] \in Whitespace
    THEN RStrip(SubSeq(s, 1, Len(s) - 1))
    ELSE s

Strip(s) == RStrip(LStrip(s))

\* The first token of a string that starts with a non-whitespace character.
RECURSIVE FirstToken(_)
FirstToken(s) ==
    IF s = <<>> \/ Head(s) \in Whitespace
    THEN <<>>
    ELSE <<Head(s)>> \o FirstToken(Tail(s))

\* value.split(): the maximal runs of non-whitespace characters.
RECURSIVE Split(_)
Split(s) ==
    LET r == LStrip(s) IN
    IF r = <<>>
    THEN <<>>
    ELSE LET tok == FirstToken(r) IN
         <<tok>> \o Split(SubSeq(r, Len(tok) + 1, Len(r)))

UpperCase ==
    <<"A", "B", "C", "D", "E", "F", "G", "H", "I", "J", "K", "L", "M",
      "N", "O", "P", "Q", "R", "S", "T", "U", "V", "W", "X", "Y", "Z">>

LowerCase ==
    <<"a", "b", "c", "d", "e", "f", "g", "h", "i", "j", "k", "l", "m",
      "n", "o", "p", "q", "r", "s", "t", "u", "v", "w", "x", "y", "z">>

LowerChar(c) ==
    IF \E i \in 1..Len(UpperCase) : UpperCase[i] = c
    THEN LowerCase[CHOOSE i \in 1..Len(UpperCase) : UpperCase[i] = c]
    ELSE c

Lower(s) == [i \in 1..Len(s) |-> LowerChar(s[i])]

\* ' ' in value
HasSpace(s) == \E i \in 1..Len(s) : s[i] = " "

-----------------------------------------------------------------------------
(* CSS_PATTERNS['values'], compiled by compile_regex as 'css_values', and  *)
(* pattern.match(cls).  Every pattern is anchored by ^ and $; a token of   *)
(* split() holds no newline, so $ matches at the very end only.            *)

StartsWith(s, p) == Len(s) >= Len(p) /\ SubSeq(s, 1, Len(p)) = p

After(s, n) == SubSeq(s, n + 1, Len(s))

DigitOrDot == { "0", "1", "2", "3", "4", "5", "6", "7", "8", "9", "." }

LowerLetters == { LowerCase[i] : i \in 1..Len(LowerCase) }

\* [0-9\.]+$
NumTail(r) == Len(r) >= 1 /\ \A i \in 1..Len(r) : r[i] \in DigitOrDot

\* ^(p1|p2|...)-[0-9\.]+$
PrefixDashNum(cls, prefixes) ==
    \E p \in prefixes :
        /\ StartsWith(cls, p \o <<"-">>)
        /\ NumTail(After(cls, Len(p) + 1))

\* (-[a-z]+)*$ : DashWords at a group boundary, InWord inside a [a-z]+ run.
RECURSIVE DashWords(_), InWord(_)
DashWords(r) ==
    \/ r = <<>>
    \/ /\ Len(r) >= 2
       /\ r[1] = "-"
       /\ r[2] \in LowerLetters
       /\ InWord(After(r, 2))

InWord(r) ==
    \/ DashWords(r)
    \/ /\ r # <<>>
       /\ Head(r) \in LowerLetters
       /\ InWord(Tail(r))

\* pattern.match(cls)
Match(pattern, cls) ==
    CASE pattern = RE_spacing ->
             PrefixDashNum(cls, { S_mx, S_my, S_px, S_py, S_m, S_p, S_gap })
      [] pattern = RE_flex ->
             StartsWith(cls, S_flex) /\ DashWords(After(cls, Len(S_flex)))
      [] pattern = RE_grid ->
             StartsWith(cls, S_grid) /\ DashWords(After(cls, Len(S_grid)))
      [] pattern = RE_display -> cls \in { S_block, S_inline, S_hidden }
      [] pattern = RE_margin -> PrefixDashNum(cls, { S_mb, S_mt, S_ml, S_mr })
      [] pattern = RE_space -> PrefixDashNum(cls, { S_space_x, S_space_y })
      [] pattern = RE_gap -> PrefixDashNum(cls, { S_gap })
      [] pattern = RE_hi -> cls = T_hi

\* any(pattern.match(cls) for pattern in self.compiled_patterns['css_values'])
CssValuesMatch(self, cls) ==
    \E pattern \in ListObject(self.compiled_patterns.css_values.compiled) :
        Match(pattern, cls)

\* Variant of AllClassesMatch: any() written where all() is meant.
AnyClassMatches(self, classes) ==
    \E i \in 1..Len(classes) : CssValuesMatch(self, classes[i])

\* all(any(...) for cls in classes)
AllClassesMatch(self, classes) ==
    \A i \in 1..Len(classes) : CssValuesMatch(self, classes[i])

-----------------------------------------------------------------------------
(* DOMPruner.should_prune                                                  *)

\* Lines 165-170: the string looks like a class list and every class matches.
ClassListMatch(self, value) ==
    HasSpace(value) /\ AllClassesMatch(self, Split(value))

\* Lines 153-170, with value already known to be a str: the stripped value
\* is a DOM text value, a spelling of null/undefined, or a pure class list.
StrRule(self, s) ==
    LET value == Strip(s) IN
    \/ value \in DOM_TEXT_VALUES
    \/ Lower(value) \in { S_null, S_undefined }
    \/ ClassListMatch(self, value)

\* Variant of IsNumber: isinstance(value, float), which lets an int through.
IsFloat(value) == value.t = "float"

\* Line 177: isinstance(value, (int, float))
IsNumber(value) == value.t \in { "int", "float" }

\* key is None (the default) or Str(k).
ShouldPrune(self, value, key) ==
    IF key = Str(S_nodeName) THEN FALSE
    ELSE IF \/ value = None
            \/ value = List(<<>>)
            \/ value = Dict(<<>>)
            \/ value = Str(<<>>) THEN TRUE
    ELSE IF value.t = "str" /\ StrRule(self, value.s) THEN TRUE
    ELSE IF value.t = "bool" THEN TRUE
    ELSE IF IsNumber(value) THEN TRUE
    ELSE FALSE

-----------------------------------------------------------------------------
(* DOMPruner.prune_object                                                  *)

\* Variant of OnlyNodeName: obj.keys() == ['nodeName'] without list(), which
\* compares a keys view with a list and is never true.
OnlyNodeNameKeysView(obj) == FALSE

\* list(obj.keys()) == ['nodeName']
OnlyNodeName(obj) == Keys(obj) = <<S_nodeName>>

\* Variant of SkipKey: the test of lines 195-196 left out.
SkipRemoveKeysOnly(self, k) == k \in REMOVE_KEYS

\* Lines 190-196: the keys the loop skips.
SkipKey(self, k) ==
    k \in REMOVE_KEYS \/ k \in ListObject(self.patterns.css_keys)

\* Variant of PruneScalar: a pruned scalar is blanked instead of dropped.
PruneScalarToEmpty(self, obj) ==
    IF ShouldPrune(self, obj, None) THEN Str(<<>>) ELSE obj

\* Lines 214-217: a non-container value.
PruneScalar(self, obj) == IF ShouldPrune(self, obj, None) THEN None ELSE obj

\* Variant of IsNotNone: the test of line 199 left out.
IsAnything(pruned_value) == TRUE

\* Line 199: pruned_value is not None
IsNotNone(pruned_value) == pruned_value # None

\* Variant of KeepsItem: the filter of line 208 left out.
KeepsEveryItem(self, item) == TRUE

\* Line 208: if not self.should_prune(item)
KeepsItem(self, item) == ~ShouldPrune(self, item, None)

RECURSIVE PruneObject(_, _), PrunePairs(_, _), PruneItems(_, _)

\* Lines 188-200: the dict `pruned`, built pair by pair.
PrunePairs(self, pairs) ==
    IF pairs = <<>>
    THEN <<>>
    ELSE LET k == Head(pairs)[1]
             v == Head(pairs)[2]
             rest == PrunePairs(self, Tail(pairs))
         IN IF SkipKey(self, k)
            THEN rest
            ELSE LET pruned_value == PruneObject(self, v) IN
                 IF IsNotNone(pruned_value)
                 THEN << <<k, pruned_value>> >> \o rest
                 ELSE rest

\* Lines 207-208: [self.prune_object(item) for item in obj
\*                 if not self.should_prune(item)]
PruneItems(self, items) ==
    IF items = <<>>
    THEN <<>>
    ELSE IF KeepsItem(self, Head(items))
         THEN <<PruneObject(self, Head(items))>>
              \o PruneItems(self, Tail(items))
         ELSE PruneItems(self, Tail(items))

PruneObject(self, obj) ==
    IF obj.t = "dict"
    THEN IF OnlyNodeName(obj)
         THEN None
         ELSE LET pruned == PrunePairs(self, obj.pairs) IN
              IF \/ pruned = <<>>
                 \/ \A i \in 1..Len(pruned) :
                        ShouldPrune(self, pruned[i][2], Str(pruned[i][1]))
              THEN None
              ELSE Dict(pruned)
    ELSE IF obj.t = "list"
    THEN LET pruned == PruneItems(self, obj.items) IN
         IF \/ pruned = <<>>
            \/ \A i \in 1..Len(pruned) : ShouldPrune(self, pruned[i], None)
         THEN None
         ELSE List(pruned)
    ELSE PruneScalar(self, obj)

-----------------------------------------------------------------------------
(* json.dumps with its defaults: separators ", " and ": ", ensure_ascii,   *)
(* allow_nan.                                                              *)

DigitChars == <<"0", "1", "2", "3", "4", "5", "6", "7", "8", "9">>

RECURSIVE NatDigits(_)
NatDigits(n) ==
    IF n < 10
    THEN <<DigitChars[n + 1]>>
    ELSE NatDigits(n \div 10) \o <<DigitChars[(n % 10) + 1]>>

IntRepr(n) == IF n < 0 THEN <<"-">> \o NatDigits(-n) ELSE NatDigits(n)

\* The escapes of the characters the model's strings can hold.
EscapeChar(c) ==
    IF c = "\"" THEN <<"\\", "\"">>
    ELSE IF c = "\\" THEN <<"\\", "\\">>
    ELSE IF c = "\n" THEN <<"\\", "n">>
    ELSE IF c = "\t" THEN <<"\\", "t">>
    ELSE IF c = "\r" THEN <<"\\", "r">>
    ELSE <<c>>

\* A string without a character to escape is its own escape.
RECURSIVE Escape(_)
Escape(s) ==
    IF \A i \in 1..Len(s) : EscapeChar(s[i]) = <<s[i]>>
    THEN s
    ELSE EscapeChar(Head(s)) \o Escape(Tail(s))

Quoted(s) == <<"\"">> \o Escape(s) \o <<"\"">>

RECURSIVE Dumps(_), DumpItems(_), DumpPairs(_)

DumpItems(items) ==
    IF items = <<>> THEN <<>>
    ELSE IF Len(items) = 1 THEN Dumps(items[1])
    ELSE Dumps(Head(items)) \o <<",", " ">> \o DumpItems(Tail(items))

DumpPairs(pairs) ==
    IF pairs = <<>> THEN <<>>
    ELSE LET one == Quoted(Head(pairs)[1]) \o <<":", " ">>
                        \o Dumps(Head(pairs)[2])
         IN IF Len(pairs) = 1
            THEN one
            ELSE one \o <<",", " ">> \o DumpPairs(Tail(pairs))

Dumps(v) ==
    CASE v.t = "null" -> <<"n", "u", "l", "l">>
      [] v.t = "bool" -> IF v.b THEN <<"t", "r", "u", "e">>
                         ELSE <<"f", "a", "l", "s", "e">>
      [] v.t = "int" -> IntRepr(v.n)
      [] v.t = "float" -> IF v.f = "nan" THEN <<"N", "a", "N">>
                          ELSE <<"I", "n", "f", "i", "n", "i", "t", "y">>
      [] v.t = "str" -> Quoted(v.s)
      [] v.t = "list" -> <<"[">> \o DumpItems(v.items) \o <<"]">>
      [] v.t = "dict" -> <<"{">> \o DumpPairs(v.pairs) \o <<"}">>

-----------------------------------------------------------------------------
(* Inputs.  Trees are all JSON values of at most MaxNodes nodes over a     *)
(* small alphabet of scalars and keys; the keys of an input dict appear in *)
(* the order of PoolKeys.  Classified strings are all strings of at most   *)
(* MaxTokens tokens of PoolTokens.                                         *)

T_hi_hi == <<"h", "i", " ", "h", "i">>
T_flex_col == <<"f", "l", "e", "x", "-", "c", "o", "l">>
T_flex_dash == <<"f", "l", "e", "x", "-">>
T_p_4 == <<"p", "-", "4">>
T_space_x_2 == <<"s", "p", "a", "c", "e", "-", "x", "-", "2">>
T_object == <<"[", "o", "b", "j", "e", "c", "t">>
T_Object == <<"O", "b", "j", "e", "c", "t", "]">>
T_Null == <<"N", "u", "l", "l">>
T_text_lg == <<"t", "e", "x", "t", "-", "l", "g">>

PoolScalars == << Bool(TRUE), PyInt(0), Str(T_hi_hi) >>

PoolKeys == <<S_nodeName, T_a, S_height, S_className>>

\* The pools of trees are sequences without repetition.
\* <<x>> \o f for every x of xs and every f of fs.
Conses(xs, fs) ==
    [ i \in 1..(Len(xs) * Len(fs)) |->
        <<xs[((i - 1) \div Len(fs)) + 1]>> \o fs[((i - 1) % Len(fs)) + 1] ]

RECURSIVE Forests(_, _), ForestsFrom(_, _, _)
RECURSIVE PairForests(_, _, _), PairForestsFrom(_, _, _, _)
RECURSIVE TreeTable(_), Flatten(_)

\* The non-empty sequences of trees with m nodes in all; bySize[i] holds the
\* trees of i nodes.  ForestsFrom: those whose first tree has i or more nodes.
ForestsFrom(bySize, m, i) ==
    IF i > m THEN <<>>
    ELSE Conses(bySize[i],
                IF i = m THEN << <<>> >> ELSE Forests(bySize, m - i))
         \o ForestsFrom(bySize, m, i + 1)

Forests(bySize, m) == ForestsFrom(bySize, m, 1)

\* The same for <<key, tree>> pairs, the keys taken in order from PoolKeys[from].
\* c counts the choices (i, j) of the first tree's size and the first key.
PairForestsFrom(bySize, m, from, c) ==
    LET nk == Len(PoolKeys) - from + 1
        i == (c \div nk) + 1
        j == from + (c % nk)
    IN IF nk <= 0 \/ i > m THEN <<>>
       ELSE Conses([ x \in 1..Len(bySize[i]) |-> <<PoolKeys[j], bySize[i][x]>> ],
                   IF i = m THEN << <<>> >>
                   ELSE PairForests(bySize, m - i, j + 1))
            \o PairForestsFrom(bySize, m, from, c + 1)

PairForests(bySize, m, from) == PairForestsFrom(bySize, m, from, 0)

\* <<the trees of 1 node, ..., the trees of n nodes>>
TreeTable(n) ==
    IF n = 1
    THEN << PoolScalars \o << List(<<>>), Dict(<<>>) >> >>
    ELSE LET bySize == TreeTable(n - 1)
             lists == Forests(bySize, n - 1)
             dicts == PairForests(bySize, n - 1, 1)
         IN Append(bySize,
                   [ i \in 1..Len(lists) |-> List(lists[i]) ]
                   \o [ i \in 1..Len(dicts) |-> Dict(dicts[i]) ])

Flatten(seqs) ==
    IF seqs = <<>> THEN <<>> ELSE Head(seqs) \o Flatten(Tail(seqs))

Trees == Flatten(TreeTable(MaxNodes))

PoolTokens ==
    { S_flex, T_flex_col, T_flex_dash, T_p_4, S_hidden, T_space_x_2,
      T_hi, T_object, T_Object, S_hash_text, T_Null, T_text_lg }

RECURSIVE Join(_, _)
Join(toks, sep) ==
    IF Len(toks) = 1
    THEN toks[1]
    ELSE toks[1] \o sep \o Join(Tail(toks), sep)

TokenSeqs == UNION { [1..n -> PoolTokens] : n \in 1..MaxTokens }

PoolStrings ==
    { pad \o Join(toks, sep) \o pad :
          toks \in TokenSeqs, sep \in { <<" ">>, <<"\t">> },
          pad \in { <<>>, <<" ">> } }
    \cup { <<>>, <<" ">>, <<"\n">> }

PoolValues ==
    { Str(s) : s \in PoolStrings }
    \cup { None, Bool(TRUE), Bool(FALSE), PyInt(0), PyInt(12),
           PyFloat("nan"), PyFloat("inf"), List(<<>>), Dict(<<>>),
           List(<<Str(T_hi)>>), Dict(<< <<S_nodeName, Str(T_hi)>> >>) }

PoolCallKeys == { None, Str(S_nodeName), Str(T_a) }

-----------------------------------------------------------------------------
(* The state machine.  One behaviour binds patterns as main does, builds   *)
(* the engine from it and exercises one operation of the engine: a         *)
(* run_passes(data, max_passes) call, stepped one loop iteration at a      *)
(* time, or one direct should_prune(value, key) call.  Spec is main        *)
(* without --patterns, SpecPatterns is main with or without it.            *)

\* call.raised names the exception the call ended with; should_prune has no
\* raise statement and applies no operation that raises on a JSON value.
NoCall ==
    [ value |-> None, key |-> None, done |-> FALSE, result |-> FALSE,
      raised |-> "none" ]

\* A name that is not bound yet.
Unbound == [ unbound |-> TRUE ]

Init ==
    /\ PRUNE_PATTERNS = PRUNE_PATTERNS_0
    /\ patterns = Unbound
    /\ args_patterns = FALSE
    /\ pruner = Unbound
    /\ data = None
    /\ max_passes = 0
    /\ previous = None
    /\ current = None
    /\ passes = 0
    /\ pc = "main"
    /\ applied = 0
    /\ converged = FALSE
    /\ call = NoCall

\* Lines 246-247 without --patterns: patterns = PRUNE_PATTERNS.
DefaultPatterns ==
    /\ pc = "main"
    /\ args_patterns' = FALSE
    /\ patterns' = PRUNE_PATTERNS
    /\ pc' = "loaded"
    /\ UNCHANGED <<PRUNE_PATTERNS, pruner, data, max_passes, previous, current,
                   passes, applied, converged, call>>

\* Lines 246-249 with --patterns: patterns = json.load(f).
LoadPatterns ==
    /\ pc = "main"
    /\ args_patterns' = TRUE
    /\ patterns' = LoadedPatterns
    /\ pc' = "loaded"
    /\ UNCHANGED <<PRUNE_PATTERNS, pruner, data, max_passes, previous, current,
                   passes, applied, converged, call>>

\* Lines 129-132: self.patterns is the dict passed in, and the two item
\* assignments are made on it.
InitPatterns(ps) ==
    SetItem(SetItem(ps, "css_values", CSS_PATTERNS.values),
            "css_keys", CSS_PATTERNS.keys)

\* Line 251 and lines 128-141: pruner = DOMPruner(patterns).  self.patterns
\* and main's patterns are one object, which is the PRUNE_PATTERNS object
\* unless a file was loaded.
DOMPruner ==
    /\ pc = "loaded"
    /\ LET self_patterns == InitPatterns(patterns) IN
        /\ patterns' = self_patterns
        /\ PRUNE_PATTERNS' =
               IF args_patterns THEN PRUNE_PATTERNS ELSE self_patterns
        /\ pruner' = [ patterns |-> self_patterns,
                       compiled_patterns |-> CompileRegex(self_patterns) ]
    /\ pc' = "idle"
    /\ UNCHANGED <<args_patterns, data, max_passes, previous, current, passes,
                   applied, converged, call>>

\* Variant of LoopTest: an off-by-one loop test.
LoopTestInclusive(p, m) == p <= m

\* Line 224: while passes < max_passes
LoopTest(p, m) == p < m

\* Variant of SameSerialization: the sizes of the serializations are compared.
SameSerializedSize(a, b) == Len(Dumps(a)) = Len(Dumps(b))

\* Line 228: json.dumps(previous) == json.dumps(current)
SameSerialization(a, b) == Dumps(a) = Dumps(b)

\* Variant of CountPass: passes += 1 placed before the comparison.
CountEveryPass(p, same) == p + 1

\* Lines 228-231: the break leaves passes alone, otherwise passes += 1.
CountPass(p, same) == IF same THEN p ELSE p + 1

\* Lines 219-222: previous = None; current = deepcopy(data); passes = 0
RunPasses ==
    /\ pc = "idle"
    /\ ~call.done
    /\ \E i \in 1..Len(Trees), m \in 0..MaxPasses :
        /\ data' = Trees[i]
        /\ max_passes' = m
        /\ current' = Trees[i]
    /\ previous' = None
    /\ passes' = 0
    /\ pc' = "loop"
    /\ UNCHANGED <<PRUNE_PATTERNS, patterns, args_patterns, pruner, applied,
                   converged, call>>

\* Lines 224-231: one iteration of the loop.
Pass ==
    /\ pc = "loop"
    /\ LoopTest(passes, max_passes)
    /\ previous' = current
    /\ current' = PruneObject(pruner, current)
    /\ applied' = applied + 1
    /\ \E same \in { SameSerialization(previous', current') } :
       /\ passes' = CountPass(passes, same)
       /\ converged' = same
       /\ pc' = IF same THEN "done" ELSE "loop"
    /\ UNCHANGED <<PRUNE_PATTERNS, patterns, args_patterns, pruner, data,
                   max_passes, call>>

\* Lines 224 and 232: the loop test fails; return current, passes.
Return ==
    /\ pc = "loop"
    /\ ~LoopTest(passes, max_passes)
    /\ pc' = "done"
    /\ UNCHANGED <<PRUNE_PATTERNS, patterns, args_patterns, pruner, data,
                   max_passes, previous, current, passes, applied, converged,
                   call>>

\* A direct call of should_prune(value, key).
CallShouldPrune ==
    /\ pc = "idle"
    /\ ~call.done
    /\ \E value \in PoolValues, key \in PoolCallKeys :
        call' = [ value |-> value, key |-> key, done |-> TRUE,
                  result |-> ShouldPrune(pruner, value, key),
                  raised |-> "none" ]
    /\ UNCHANGED <<PRUNE_PATTERNS, patterns, args_patterns, pruner, data,
                   max_passes, previous, current, passes, pc, applied,
                   converged>>

Next ==
    \/ DefaultPatterns
    \/ DOMPruner
    \/ RunPasses
    \/ Pass
    \/ Return
    \/ CallShouldPrune

\* The engine built from the built-in table.
Spec == Init /\ [][Next]_vars

NextPatterns ==
    \/ LoadPatterns
    \/ Next

\* The engine built from the built-in table or from a loaded one.
SpecPatterns == Init /\ [][NextPatterns]_vars

\* The value run_passes returns (line 232).
Result == [ tree |-> current, passes |-> passes ]

\* Lines 224-232 as a function: what the loop returns when it is entered
\* with current = tree and passes = p.
RECURSIVE RunPassesFrom(_, _, _, _)
RunPassesFrom(self, tree, p, m) ==
    IF ~LoopTest(p, m)
    THEN [ tree |-> tree, passes |-> p ]
    ELSE LET pruned == PruneObject(self, tree)
             same == SameSerialization(tree, pruned)
         IN IF same
            THEN [ tree |-> pruned, passes |-> CountPass(p, same) ]
            ELSE RunPassesFrom(self, pruned, CountPass(p, same), m)

\* An engine that reads the module-level CSS_PATTERNS lists.
ModuleTables ==
    [ patterns |-> [ css_keys |-> CSS_PATTERNS.keys ],
      compiled_patterns |-> [ css_values |-> Compiled(CSS_PATTERNS.values) ] ]

-----------------------------------------------------------------------------
(* Vocabulary of the properties.  After a Pass step, previous is the tree  *)
(* the last pass was applied to and current is what it produced.           *)

PassApplied == applied > 0

HasKey(d, k) == d.t = "dict" /\ \E i \in 1..Len(d.pairs) : d.pairs[i][1] = k

ValueOf(d, k) == d.pairs[CHOOSE i \in 1..Len(d.pairs) : d.pairs[i][1] = k][2]

IsScalar(v) == v.t \notin { "dict", "list" }

\* A mapping whose sole key is nodeName.
SoleNodeName(v) ==
    v.t = "dict" /\ Len(v.pairs) = 1 /\ v.pairs[1][1] = S_nodeName

\* Every value of a tree: the tree, its children, their children, ...
RECURSIVE Nodes(_)
Nodes(v) ==
    { v } \cup
    IF v.t = "list"
    THEN UNION { Nodes(v.items[i]) : i \in 1..Len(v.items) }
    ELSE IF v.t = "dict"
    THEN UNION { Nodes(v.pairs[i][2]) : i \in 1..Len(v.pairs) }
    ELSE {}

\* The place in the output list of the prune result of items[i], an item
\* that the pre-recursion filter of line 208 lets through.
Slot(items, i) ==
    Cardinality({ j \in 1..i : ~ShouldPrune(pruner, items[j], None) })

IsFixedPoint(tree) == PruneObject(pruner, tree) = tree

RECURSIVE NodeCount(_), SumCounts(_)
SumCounts(vs) ==
    IF vs = <<>> THEN 0 ELSE NodeCount(Head(vs)) + SumCounts(Tail(vs))

NodeCount(v) ==
    1 + IF v.t = "list" THEN SumCounts(v.items)
        ELSE IF v.t = "dict"
        THEN SumCounts([ i \in 1..Len(v.pairs) |-> v.pairs[i][2] ])
        ELSE 0

\* Shrunk(out, in): out is in with nodes removed or replaced by null, and
\* nothing else changed.  ItemsShrunk and PairsShrunk: the children of out
\* are, in order, shrunk images of some of the children of in (under the
\* same keys).
RECURSIVE Shrunk(_, _), ItemsShrunk(_, _), PairsShrunk(_, _)
ItemsShrunk(outs, ins) ==
    \/ outs = <<>>
    \/ /\ ins # <<>>
       /\ \/ Shrunk(Head(outs), Head(ins)) /\ ItemsShrunk(Tail(outs), Tail(ins))
          \/ ItemsShrunk(outs, Tail(ins))

PairsShrunk(outs, ins) ==
    \/ outs = <<>>
    \/ /\ ins # <<>>
       /\ \/ /\ Head(outs)[1] = Head(ins)[1]
             /\ Shrunk(Head(outs)[2], Head(ins)[2])
             /\ PairsShrunk(Tail(outs), Tail(ins))
          \/ PairsShrunk(outs, Tail(ins))

Shrunk(out, in) ==
    \/ out = None
    \/ IsScalar(in) /\ out = in
    \/ in.t = "list" /\ out.t = "list" /\ ItemsShrunk(out.items, in.items)
    \/ in.t = "dict" /\ out.t = "dict" /\ PairsShrunk(out.pairs, in.pairs)

-----------------------------------------------------------------------------
(* C1 (stated as claimed; refuted).  Protection: a mapping that contains   *)
(* the key nodeName and survives a prune pass still has the nodeName key   *)
(* in the pass's output, and with the same value when that value is a      *)
(* scalar, whatever the value is.                                          *)
C1_NodeNameProtected ==
    ( /\ PassApplied
      /\ HasKey(previous, S_nodeName)
      /\ current # None )
    => /\ HasKey(current, S_nodeName)
       /\ IsScalar(ValueOf(previous, S_nodeName))
            => ValueOf(current, S_nodeName) = ValueOf(previous, S_nodeName)

(* C2.  Collapse: the prune pass yields absent (None) for a mapping whose  *)
(* sole key is nodeName, whatever the value: at the root the pass returns  *)
(* None; as a mapping value its key is not in the parent's output; as a    *)
(* sequence element the result in its place of the parent's output is None *)
(* and never a mapping.                                                    *)
C2_SoleNodeNameCollapses ==
    PassApplied =>
      /\ SoleNodeName(previous) => current = None
      /\ previous.t = "dict" =>
           \A i \in 1..Len(previous.pairs) :
             SoleNodeName(previous.pairs[i][2])
               => current = None \/ ~HasKey(current, previous.pairs[i][1])
      /\ previous.t = "list" =>
           \A i \in 1..Len(previous.items) :
             SoleNodeName(previous.items[i])
               => \/ current = None
                  \/ current.items[Slot(previous.items, i)] = None

\* A pass has met a sole-nodeName mapping as an element of a sequence that
\* survives the pass.
C2_Witness ==
    /\ PassApplied
    /\ previous.t = "list"
    /\ current # None
    /\ \E i \in 1..Len(previous.items) : SoleNodeName(previous.items[i])

(* C3.  Idempotence at the fixed point: when run_passes has stopped        *)
(* because a pass left the serialization unchanged, one more prune pass on *)
(* the returned tree yields the same tree.                                 *)
C3_FixedPointIdempotent ==
    (pc = "done" /\ converged) => PruneObject(pruner, Result.tree) = Result.tree

\* A run that converged after at least one pass changed the tree, and that
\* returns a tree.
C3_Witness ==
    pc = "done" /\ converged /\ passes >= 1 /\ Result.tree # None

(* C4 (stated as claimed; refuted).  Monotonic shrink: the serialized size *)
(* of the tree after a pass is at most its serialized size before it.      *)
C4_MonotonicShrink ==
    PassApplied => Len(Dumps(current)) <= Len(Dumps(previous))

(* C4 (amended).  A pass never adds content: its output is its input with *)
(* nodes removed or replaced by null and nothing else changed, so that the *)
(* number of nodes never grows.                                            *)
C4_PassOnlyRemoves ==
    PassApplied =>
        /\ Shrunk(current, previous)
        /\ NodeCount(current) <= NodeCount(previous)

\* A pass that changed a tree into a surviving tree whose serialization is
\* longer.
C4_Witness ==
    /\ PassApplied
    /\ current # None
    /\ Len(Dumps(current)) > Len(Dumps(previous))

(* C5 (stated as claimed; refuted).  All-or-nothing: should_prune returns  *)
(* true for a string of two or more whitespace-separated tokens only if    *)
(* every token matches a CSS value pattern.                                *)
C5_AllOrNothing ==
    ( /\ call.done
      /\ call.value.t = "str"
      /\ Len(Split(call.value.s)) >= 2
      /\ call.result )
    => \A i \in 1..Len(Split(call.value.s)) :
           CssValuesMatch(pruner, Split(call.value.s)[i])

(* C5 (amended).  The same for every multi-token string whose stripped     *)
(* form is not a DOM_TEXT_VALUES literal.                                  *)
C5_AllOrNothingButLiterals ==
    ( /\ call.done
      /\ call.value.t = "str"
      /\ Len(Split(call.value.s)) >= 2
      /\ Strip(call.value.s) \notin DOM_TEXT_VALUES
      /\ call.result )
    => \A i \in 1..Len(Split(call.value.s)) :
           CssValuesMatch(pruner, Split(call.value.s)[i])

\* should_prune was called on a multi-token string that is no literal, and
\* returned true.
C5_Witness ==
    /\ call.done
    /\ call.value.t = "str"
    /\ Len(Split(call.value.s)) >= 2
    /\ Strip(call.value.s) \notin DOM_TEXT_VALUES
    /\ call.result

(* C6.  Termination within the budget: prune_object is applied to the     *)
(* tree at most max_passes times, and every step of a started run_passes   *)
(* call either returns or uses up one of the max_passes - applied          *)
(* applications left, so the call returns (the while test of a started     *)
(* call always takes one of its two branches, Pass or Return); with        *)
(* max_passes = 0 no pass is applied: the tree returned is the input and   *)
(* the count is 0.                                                         *)
C6_TerminatesWithinBudget ==
    /\ [](applied <= max_passes)
    /\ [][ pc = "loop" =>
             \/ pc' = "done"
             \/ max_passes' - applied' < max_passes - applied ]_vars
    /\ []( (pc = "done" /\ max_passes = 0)
             => (applied = 0 /\ Result.passes = 0 /\ Result.tree = data) )

\* A run that used its whole budget of at least one pass without converging.
C6_Witness ==
    pc = "done" /\ max_passes >= 1 /\ applied = max_passes /\ ~converged

(* C7 (stated as claimed; refuted).  The pass count returned equals the    *)
(* number of times prune_object was applied to the whole tree, the final   *)
(* pass that changed nothing included.                                     *)
C7_CountsEveryPass ==
    pc = "done" => Result.passes = applied

(* C7 (amended).  The pass count returned is the number of passes that     *)
(* changed the serialization: the number of passes applied, less the final *)
(* unchanged one when the run stopped by convergence.                      *)
C7_CountsChangingPasses ==
    pc = "done" =>
        Result.passes = applied - (IF converged THEN 1 ELSE 0)

\* A run that converged: two passes applied, one counted.
C7_Witness ==
    pc = "done" /\ converged /\ applied = 2 /\ Result.passes = 1

(* C8 (stated as claimed; refuted).  Absent means omitted: no sequence in  *)
(* the output of a prune pass has a null element.  (No input tree of the   *)
(* model holds a null, and the filter of line 208 drops a null element of  *)
(* the input, so a null element of the output stands for a pruned node.)   *)
C8_AbsentIsOmitted ==
    PassApplied =>
        \A n \in Nodes(current) :
            n.t = "list" => \A i \in 1..Len(n.items) : n.items[i] # None

(* C9 (stated as claimed; refuted).  Non-convergence is reported: the      *)
(* value returned tells a tree that is not a fixed point from one that is. *)
(* Beside the tree, run_passes returns the pass count only, and a tree     *)
(* that is not a fixed point always comes with passes = max_passes: the    *)
(* count is an indication iff a fixed point never comes with it.           *)
C9_NonConvergenceIndicated ==
    (pc = "done" /\ max_passes >= 1) =>
        (Result.passes = max_passes <=> ~IsFixedPoint(Result.tree))

(* C10 (stated as claimed; refuted).  Classifying a non-finite number      *)
(* raises UnsupportedValueError.                                           *)
C10_UnsupportedRejected ==
    (call.done /\ call.value.t = "float")
        => call.raised = "UnsupportedValueError"

(* C11 (stated as claimed; refuted).  Rule state is never mutated: once    *)
(* main has bound patterns, no step (building the engine, should_prune,    *)
(* run_passes) changes the dict that the engine is built from, nor the     *)
(* module-level PRUNE_PATTERNS dict that every engine built without an     *)
(* argument shares.                                                        *)
C11_RuleStateNeverMutated ==
    [][ pc # "main" =>
          /\ patterns' = patterns
          /\ PRUNE_PATTERNS' = PRUNE_PATTERNS ]_vars

C13_KeyBasedRemoval ==
    PassApplied =>
      /\ \A n \in Nodes(current) :
            n.t = "dict" =>
              \A i \in 1..Len(n.pairs) :
                  n.pairs[i][1] \notin REMOVE_KEYS \cup CSS_KEYS
      /\ \A n \in Nodes(previous) :
            (n.t = "dict" /\ ~SoleNodeName(n)) =>
              LET out == IF n = previous THEN current
                         ELSE PruneObject(pruner, n)
              IN \A i \in 1..Len(n.pairs) :
                   LET k == n.pairs[i][1]
                       v == PruneObject(pruner, n.pairs[i][2])
                   IN (k \notin REMOVE_KEYS \cup CSS_KEYS /\ v # None)
                        => HasKey(out, k) /\ ValueOf(out, k) = v

\* A pass over a mapping that has a key of each set and a third key, whose
\* value survives.
C13_Witness ==
    /\ PassApplied
    /\ previous.t = "dict"
    /\ \E i \in 1..Len(previous.pairs) : previous.pairs[i][1] \in REMOVE_KEYS
    /\ \E i \in 1..Len(previous.pairs) : previous.pairs[i][1] \in CSS_KEYS
    /\ current # None

(* C14.  The prune iteration always converges: a pass that changes a tree  *)
(* of more than one node strictly reduces the number of nodes, and a       *)
(* run_passes call with max_passes at least the number of nodes of its     *)
(* input returns a fixed point of the prune pass.                          *)
C14_AlwaysConverges ==
    /\ ( /\ PassApplied
         /\ NodeCount(previous) > 1
         /\ current # previous )
       => NodeCount(current) < NodeCount(previous)
    /\ (pc = "done" /\ max_passes >= NodeCount(data))
       => IsFixedPoint(Result.tree)

\* A run on a tree of three nodes with max_passes = 3 that needed two
\* changing passes, one less than the tree has nodes, and then converged.
C14_Witness ==
    /\ pc = "done"
    /\ NodeCount(data) = 3
    /\ max_passes = 3
    /\ Result.passes = 2
    /\ converged

\* Clean(tree): no scalar of the tree satisfies should_prune (so there is no
\* null, empty string, boolean or number, and no null sequence element), no
\* mapping or sequence is empty, no mapping has nodeName as its only key and
\* no mapping has a key of REMOVE_KEYS or of CSS_PATTERNS['keys'].
Clean(tree) ==
    \A n \in Nodes(tree) :
        /\ IsScalar(n) =>
              /\ ~ShouldPrune(pruner, n, None)
              /\ n.t \notin { "null", "bool", "int", "float" }
              /\ n # Str(<<>>)
        /\ n.t = "list" =>
              /\ n.items # <<>>
              /\ \A i \in 1..Len(n.items) : n.items[i] # None
        /\ n.t = "dict" =>
              /\ n.pairs # <<>>
              /\ ~SoleNodeName(n)
              /\ \A i \in 1..Len(n.pairs) :
                    n.pairs[i][1] \notin REMOVE_KEYS \cup CSS_KEYS

C16_ResultIndependentOfTable ==
    /\ pc = "done" => Result = RunPassesFrom(ModuleTables, data, 0, max_passes)
    /\ call.done =>
          call.result = ShouldPrune(ModuleTables, call.value, call.key)

\* A run of an engine built from the loaded table, on a mapping with the
\* key and the string that the loaded table's own lists match: both are
\* returned.
C16_Witness ==
    /\ pc = "done"
    /\ args_patterns
    /\ T_a \in ListObject(LoadedPatterns.css_keys)
    /\ HasKey(data, T_a)
    /\ Result.passes >= 1
    /\ HasKey(Result.tree, T_a)
    /\ ValueOf(Result.tree, T_a) = Str(T_hi_hi)

====
